---- MODULE Spec2Model ----
(***************************************************************************)
(* State-machine model of the BiasAuditDashboard React component           *)
(* (src/bias-audit-demo/src/components/BiasAuditDashboard.tsx): the         *)
(* synthetic data generator, the periodic updater (useEffect + setInterval) *)
(* and the view state driven by user events.                                *)
(*                                                                         *)
(* Units: scores are integers in millionths (0.092 is 92000), times are    *)
(* seconds (the 2000 ms period is 2), a Math.random() result is an integer *)
(* in thousandths (0..999 stands for [0,1)).                               *)
(***************************************************************************)
EXTENDS Integers, Sequences, FiniteSets, TLC

VARIABLES
    mounted,                \* the component instance exists
    activeTab,              \* useState('overview')
    realTimeEnabled,        \* useState(true)
    selectedVisualization,  \* useState<Viz>(null)
    filters,                \* useState({...})
    biasMetrics,            \* useMemo(generateDummyData).biasMetrics
    alerts,                 \* useMemo(generateDummyData).alerts
    demographicData,        \* useMemo(generateDummyData).demographicData
    currentBiasScore,       \* useState(0.092)
    realtimeData,           \* useState(timeSeriesData)
    pendingUpdates,         \* updates the callback has queued for the next render
    timers,                 \* the window's live interval timers
    interval,               \* the id held by the effect's cleanup closure
    now,                    \* the wall clock, seconds
    tickCount,              \* history: runs of the callback since the mount
    lastEventTime,          \* history: time of the last mount, unmount, toggle or tick
    staleUpdates            \* history: a callback ran against an unmounted view

vars == <<mounted, activeTab, realTimeEnabled, selectedVisualization, filters,
          biasMetrics, alerts, demographicData, currentBiasScore, realtimeData,
          pendingUpdates, timers, interval, now, tickCount, lastEventTime,
          staleUpdates>>

viewState == <<activeTab, realTimeEnabled, selectedVisualization, filters,
               currentBiasScore, realtimeData>>
snapshot == <<biasMetrics, alerts, demographicData>>
history == <<tickCount, lastEventTime, staleUpdates>>

----------------------------------------------------------------------------
(* Bounds of the model *)

MaxClockSteps == 5
MaxLongRunSteps == 70

(* Program constants *)

WindowLen == 30
Period == 2
InitialScore == 92000
ClampHi == 300000
ExcellentBelow == 50000
ModerateBelow == 100000
DataPointsAnalyzed == 6100

Step == Period \div 2
Minute == 60
Day == 24 * 60 * Minute
SinUnit == 100 * 100
RandomUnit == 10 * 100
NoTimer == 0

Max(a, b) == IF a >= b THEN a ELSE b
Min(a, b) == IF a <= b THEN a ELSE b

----------------------------------------------------------------------------
(* Math.random() and Math.sin() *)

\* The five Math.random() calls of one timer callback, in call order.
RandomDraws == {<<0, 999, 0, 500, 999>>, <<999, 0, 500, 999, 0>>}

\* The 150 Math.random() calls of one generateDummyData run: the sample of
\* call c (0..4) at index i (0..29), for each modelled run of the generator.
\* The samples of the modelled run range over 0, 111, ..., 999.
NoisePatterns == {"mixed"}
Noise(p, i, c) == IF p = "mixed" THEN ((i * 7 + c * 3) % 10) * 111 ELSE 0

\* sin(k * 0.05) in ten-thousandths, k = 0..116.
SinTable ==
  <<
     0, 500, 998, 1494, 1987, 2474, 2955, 3429, 3894, 4350, 4794, 5227,
     5646, 6052, 6442, 6816, 7174, 7513, 7833, 8134, 8415, 8674, 8912, 9128,
     9320, 9490, 9636, 9757, 9854, 9927, 9975, 9998, 9996, 9969, 9917, 9840,
     9738, 9613, 9463, 9290, 9093, 8874, 8632, 8369, 8085, 7781, 7457, 7115,
     6755, 6378, 5985, 5577, 5155, 4720, 4274, 3817, 3350, 2875, 2392, 1904,
     1411, 915, 416, -84, -584, -1082, -1577, -2069, -2555, -3035, -3508, -3971,
     -4425, -4868, -5298, -5716, -6119, -6506, -6878, -7232, -7568, -7885, -8183, -8460,
     -8716, -8950, -9162, -9351, -9516, -9658, -9775, -9868, -9937, -9981, -9999, -9993,
     -9962, -9905, -9825, -9719, -9589, -9435, -9258, -9058, -8835, -8589, -8323, -8035,
     -7728, -7401, -7055, -6692, -6313, -5917, -5507, -5083, -4646
  >>
Sin(k) == SinTable[k + 1]

\* Math.sin(k * 0.05) * amplitude, Math.random() * range and
\* (Math.random() - 0.5) * range, in millionths.
SinTerm(k, amplitude) == (Sin(k) * amplitude) \div SinUnit
NoiseTerm(r, range) == (r * range) \div RandomUnit
Jitter(r, range) == ((r - 500) * range) \div RandomUnit

----------------------------------------------------------------------------
(* generateDummyData *)

BiasMetricsLiteral ==
  << [name |-> "Gender Bias", value |-> 87000, pValue |-> 23000,
      status |-> "moderate", trend |-> "uptrend"],
     [name |-> "Age Discrimination", value |-> 156000, pValue |-> 1000,
      status |-> "high-risk", trend |-> "dropping"],
     [name |-> "Ethnic Fairness", value |-> 43000, pValue |-> 124000,
      status |-> "excellent", trend |-> "stable"],
     [name |-> "Socioeconomic Impact", value |-> 112000, pValue |-> 8000,
      status |-> "high-risk", trend |-> "dropping"] >>

\* Mutation: the timestamps are literals as well, whatever the time is.
AlertsLiteralFixedClock(t) ==
  << [id |-> "1", timestamp |-> 0 - Minute * 15, severity |-> "high",
      title |-> "Age Bias Threshold Exceeded", metric |-> "age_discrimination"],
     [id |-> "2", timestamp |-> 0 - Minute * 45, severity |-> "medium",
      title |-> "Gender Performance Gap", metric |-> "gender_bias"],
     [id |-> "3", timestamp |-> 0 - Minute * 120, severity |-> "low",
      title |-> "Sample Size Warning", metric |-> "sample_size"] >>
AlertsLiteral(t) ==
  << [id |-> "1", timestamp |-> t - Minute * 15, severity |-> "high",
      title |-> "Age Bias Threshold Exceeded", metric |-> "age_discrimination"],
     [id |-> "2", timestamp |-> t - Minute * 45, severity |-> "medium",
      title |-> "Gender Performance Gap", metric |-> "gender_bias"],
     [id |-> "3", timestamp |-> t - Minute * 120, severity |-> "low",
      title |-> "Sample Size Warning", metric |-> "sample_size"] >>

\* Mutation: two digits of the male count are swapped.
DemographicLiteralSwappedDigits ==
  [gender |-> [male |-> 2487, female |-> 3156, nonbinary |-> 97],
   age |-> [a18_25 |-> 2890, a26_35 |-> 2045, a36_45 |-> 998, a46plus |-> 167],
   ethnicity |-> [white |-> 2456, black |-> 1234, hispanic |-> 1456,
                  asian |-> 789, other |-> 165]]
\* Mutation: the 36-45 band counts ten learners fewer.
DemographicLiteralBandOff ==
  [gender |-> [male |-> 2847, female |-> 3156, nonbinary |-> 97],
   age |-> [a18_25 |-> 2890, a26_35 |-> 2045, a36_45 |-> 988, a46plus |-> 167],
   ethnicity |-> [white |-> 2456, black |-> 1234, hispanic |-> 1456,
                  asian |-> 789, other |-> 165]]
DemographicLiteral ==
  [gender |-> [male |-> 2847, female |-> 3156, nonbinary |-> 97],
   age |-> [a18_25 |-> 2890, a26_35 |-> 2045, a36_45 |-> 998, a46plus |-> 167],
   ethnicity |-> [white |-> 2456, black |-> 1234, hispanic |-> 1456,
                  asian |-> 789, other |-> 165]]

\* dates[i] and timeSeriesData[i], i = 0..29, generated at time t.
\* Mutation: dayjs().subtract(i, 'day'), which dates the newest point first.
SeriesDateNewestFirst(t, i) == t - i * Day
SeriesDate(t, i) == t - (29 - i) * Day

\* Mutation: the age channel has a sinusoidal term in place of its trend.
SeriesPointAgeSinusoidal(t, p, i) ==
  [date |-> SeriesDate(t, i),
   overall_bias |-> 80000 + SinTerm(i * 4, 20000) + NoiseTerm(Noise(p, i, 0), 10000),
   gender_bias |-> 87000 + SinTerm(i * 3, 15000) + NoiseTerm(Noise(p, i, 1), 8000),
   age_bias |-> 156000 + SinTerm(i * 2, 20000) + NoiseTerm(Noise(p, i, 2), 10000),
   ethnic_bias |-> 43000 + NoiseTerm(Noise(p, i, 3), 5000),
   socioeconomic_bias |-> 112000 + SinTerm(i * 2, 20000) + NoiseTerm(Noise(p, i, 4), 8000)]
\* timeSeriesData[i], generated at time t with the draws of pattern p
SeriesPoint(t, p, i) ==
  [date |-> SeriesDate(t, i),
   overall_bias |-> 80000 + SinTerm(i * 4, 20000) + NoiseTerm(Noise(p, i, 0), 10000),
   gender_bias |-> 87000 + SinTerm(i * 3, 15000) + NoiseTerm(Noise(p, i, 1), 8000),
   age_bias |-> 156000 - i * 2000 + NoiseTerm(Noise(p, i, 2), 10000),
   ethnic_bias |-> 43000 + NoiseTerm(Noise(p, i, 3), 5000),
   socioeconomic_bias |-> 112000 + SinTerm(i * 2, 20000) + NoiseTerm(Noise(p, i, 4), 8000)]

\* The series of a run at time 0, per run of the generator; a run at time t
\* differs from it in the dates only, which are t later.
SeriesAtZero ==
  [p \in NoisePatterns |-> [j \in 1..WindowLen |-> SeriesPoint(0, p, j - 1)]]

TimeSeriesData(t, p) ==
  [j \in 1..WindowLen |-> [SeriesAtZero[p][j] EXCEPT !.date = SeriesDate(t, j - 1)]]

generateDummyData(t, p) ==
  [biasMetrics |-> BiasMetricsLiteral,
   alerts |-> AlertsLiteral(t),
   demographicData |-> DemographicLiteral,
   timeSeriesData |-> TimeSeriesData(t, p)]

----------------------------------------------------------------------------
(* View state *)

\* Mutation: the key of the second tab item is another string.
TabKeysOtherKey == {"overview", "realtime", "mitigation", "history"}
\* The keys of the items of Tabs
TabKeys == {"overview", "monitoring", "mitigation", "history"}

InitialFilters(t) ==
  [protectedAttributes |-> <<"gender", "age">>,
   outcomeVariable |-> "completion_rate",
   dateRange |-> << <<t - 30 * Day>>, <<t>> >>,
   biasThreshold |-> 100000,
   minimumSampleSize |-> 30]

\* Mutation: the first threshold is 0.5 in place of 0.05.
getBiasStatusWrongThreshold(score) ==
  IF score < 500000
    THEN [status |-> "success", text |-> "Excellent", color |-> "#52c41a"]
  ELSE [status |-> "error", text |-> "High Risk", color |-> "#f5222d"]
\* getBiasStatus(score)
getBiasStatus(score) ==
  IF score < ExcellentBelow
    THEN [status |-> "success", text |-> "Excellent", color |-> "#52c41a"]
  ELSE IF score < ModerateBelow
    THEN [status |-> "warning", text |-> "Moderate", color |-> "#faad14"]
  ELSE [status |-> "error", text |-> "High Risk", color |-> "#f5222d"]

\* The Tag colour of a metric card and the Status badge of the results table.
StatusTagColor(status) ==
  IF status = "excellent" THEN "green"
  ELSE IF status = "moderate" THEN "orange" ELSE "red"

StatusBadge(status) ==
  [status |-> IF status = "excellent" THEN "success"
              ELSE IF status = "moderate" THEN "warning" ELSE "error",
   text |-> IF status = "excellent" THEN "Excellent"
            ELSE IF status = "moderate" THEN "Moderate" ELSE "High Risk"]

----------------------------------------------------------------------------
(* Timers: setInterval / clearInterval *)

\* A timer id is an integer greater than zero that no live timer has.
FreshId(ts) == CHOOSE n \in 1..(Cardinality(ts) + 1) : \A t \in ts : t.id # n

\* Mutation: the callback is also run at once when the timer is registered.
SetIntervalFiresAtOnce(ts, t0) ==
  ts \cup {[id |-> FreshId(ts), due |-> t0, stale |-> FALSE]}
SetInterval(ts, t0) ==
  ts \cup {[id |-> FreshId(ts), due |-> t0 + Period, stale |-> FALSE]}

\* Mutation: every id but the given one is cleared.
ClearIntervalOthers(ts, id) == {t \in ts : t.id = id}
ClearInterval(ts, id) == {t \in ts : t.id # id}

\* Mutation: a one-shot timer (setTimeout in place of setInterval).
RescheduleOneShot(ts, t, t0) == ts \ {t}
\* An interval timer that fired at time t0 is due again one period later.
Reschedule(ts, t, t0) == (ts \ {t}) \cup {[t EXCEPT !.due = t0 + Period]}

\* Mutation: the effect returns no cleanup function.
EffectCleanupMissing(ts, iv) == ts
\* The cleanup returned by the previous run of the effect, if it returned one.
EffectCleanup(ts, iv) == IF iv = NoTimer THEN ts ELSE ClearInterval(ts, iv)

\* Mutation: the early return is missing, the timer is registered whatever
\* the flag.
EffectRunIgnoresFlag(ts, enabled, t0) == <<SetInterval(ts, t0), FreshId(ts)>>
\* The effect body: <<timers, interval>> after it ran on timers ts at time t0.
EffectRun(ts, enabled, t0) ==
  IF ~enabled THEN <<ts, NoTimer>>
  ELSE <<SetInterval(ts, t0), FreshId(ts)>>

----------------------------------------------------------------------------
(* The timer callback *)

\* Mutation: the jitter is +/- 0.1.
NewScoreWideJitter(r) == 92000 + Jitter(r, 200000)
\* newScore = 0.092 + (Math.random() - 0.5) * 0.02
NewScore(r) == 92000 + Jitter(r, 20000)

\* Mutation: the score is clamped to [0, 0.1].
ClampToModerate(x) == Max(0, Min(ModerateBelow, x))
\* Math.max(0, Math.min(0.3, x))
Clamp(x) == Max(0, Min(ClampHi, x))

\* Mutation: the jitter alone is stored, without the base and the clamp.
NextScoreJitterOnly(r) == Jitter(r, 20000)
NextScore(r) == Clamp(NewScore(r))

NewPoint(t, d) ==
  [date |-> t,
   overall_bias |-> NewScore(d[1]),
   gender_bias |-> 87000 + Jitter(d[2], 10000),
   age_bias |-> 156000 + Jitter(d[3], 15000),
   ethnic_bias |-> 43000 + Jitter(d[4], 5000),
   socioeconomic_bias |-> 112000 + Jitter(d[5], 20000)]


\* Mutation: prev.slice(0, -1), which drops the newest point.
SliceButLast(s) == SubSeq(s, 1, Len(s) - 1)
\* prev => [...prev.slice(1), point]
Slice1(s) == IF Len(s) = 0 THEN s ELSE Tail(s)
\* Mutation: the oldest point is kept (prev => [...prev, point]).
NextWindowKeepsOldest(prev, point) == Append(prev, point)
NextWindow(prev, point) == Append(Slice1(prev), point)

\* What one run of the callback queues: setCurrentBiasScore(score) and
\* setRealtimeData(prev => [...prev.slice(1), point]).
Update(t, d) == [score |-> NextScore(d[1]), point |-> NewPoint(t, d)]

\* Mutation: setRealtimeData([...realtimeData.slice(1), point]), a value
\* computed from the window of the last render: of several queued updates
\* the last one wins.
ApplyUpdatesLastWins(window, updates) ==
  IF updates = <<>> THEN window
  ELSE NextWindow(window, updates[Len(updates)].point)
\* The render applies the queued updater functions in their order, each to
\* the result of the one before it.
RECURSIVE ApplyUpdates(_, _)
ApplyUpdates(window, updates) ==
  IF updates = <<>> THEN window
  ELSE ApplyUpdates(NextWindow(window, Head(updates).point), Tail(updates))

\* The queued score updates are values: the last one is the state.
ApplyScores(score, updates) ==
  IF updates = <<>> THEN score ELSE updates[Len(updates)].score

----------------------------------------------------------------------------
(* Mounting: the first render and the first run of the effect *)

\* What the variables hold while no component instance exists: the hook
\* state of an unmounted component is discarded.
Released ==
  [activeTab |-> "", realTimeEnabled |-> FALSE, selectedVisualization |-> "null",
   filters |-> [protectedAttributes |-> <<>>, outcomeVariable |-> "",
                dateRange |-> <<>>, biasThreshold |-> 0, minimumSampleSize |-> 0],
   biasMetrics |-> <<>>, alerts |-> <<>>,
   demographicData |-> [gender |-> <<>>, age |-> <<>>, ethnicity |-> <<>>],
   currentBiasScore |-> 0, realtimeData |-> <<>>]

\* Mutation: the bias threshold of a view that is reloaded is restored from
\* the view it replaces.
MountAtRestoresThreshold(t, p, ts) ==
  /\ mounted' = TRUE
  /\ activeTab' = "overview"
  /\ realTimeEnabled' = TRUE
  /\ selectedVisualization' = "null"
  /\ filters' = [InitialFilters(t) EXCEPT
                   !.biasThreshold = IF mounted THEN filters.biasThreshold ELSE @]
  /\ biasMetrics' = BiasMetricsLiteral
  /\ alerts' = AlertsLiteral(t)
  /\ demographicData' = DemographicLiteral
  /\ currentBiasScore' = InitialScore
  /\ realtimeData' = TimeSeriesData(t, p)
  /\ pendingUpdates' = <<>>
  /\ timers' = EffectRun(ts, TRUE, t)[1]
  /\ interval' = EffectRun(ts, TRUE, t)[2]
  /\ tickCount' = 0
  /\ lastEventTime' = t

\* The state after the first render at time t and the first run of the
\* effect, on a page whose live timers are ts.
MountAt(t, p, ts) ==
  /\ mounted' = TRUE
  /\ activeTab' = "overview"
  /\ realTimeEnabled' = TRUE
  /\ selectedVisualization' = "null"
  /\ filters' = InitialFilters(t)
  /\ biasMetrics' = BiasMetricsLiteral
  /\ alerts' = AlertsLiteral(t)
  /\ demographicData' = DemographicLiteral
  /\ currentBiasScore' = InitialScore
  /\ realtimeData' = TimeSeriesData(t, p)
  /\ pendingUpdates' = <<>>
  /\ timers' = EffectRun(ts, TRUE, t)[1]
  /\ interval' = EffectRun(ts, TRUE, t)[2]
  /\ tickCount' = 0
  /\ lastEventTime' = t

Init ==
  \E p \in NoisePatterns :
    /\ mounted = TRUE
    /\ activeTab = "overview"
    /\ realTimeEnabled = TRUE
    /\ selectedVisualization = "null"
    /\ filters = InitialFilters(0)
    /\ biasMetrics = generateDummyData(0, p).biasMetrics
    /\ alerts = generateDummyData(0, p).alerts
    /\ demographicData = generateDummyData(0, p).demographicData
    /\ currentBiasScore = InitialScore
    /\ realtimeData = generateDummyData(0, p).timeSeriesData
    /\ pendingUpdates = <<>>
    /\ timers = EffectRun({}, TRUE, 0)[1]
    /\ interval = EffectRun({}, TRUE, 0)[2]
    /\ now = 0
    /\ tickCount = 0
    /\ lastEventTime = 0
    /\ staleUpdates = FALSE

\* React unmounts the component: the effect's cleanup runs, the state is released.
\* A timer that outlives the unmount holds the setters of a released view.
Unmount ==
  /\ mounted
  /\ mounted' = FALSE
  /\ timers' = {[t EXCEPT !.stale = TRUE] : t \in EffectCleanup(timers, interval)}
  /\ interval' = NoTimer
  /\ activeTab' = Released.activeTab
  /\ realTimeEnabled' = Released.realTimeEnabled
  /\ selectedVisualization' = Released.selectedVisualization
  /\ filters' = Released.filters
  /\ biasMetrics' = Released.biasMetrics
  /\ alerts' = Released.alerts
  /\ demographicData' = Released.demographicData
  /\ currentBiasScore' = Released.currentBiasScore
  /\ realtimeData' = Released.realtimeData
  /\ pendingUpdates' = <<>>
  /\ tickCount' = 0
  /\ lastEventTime' = now
  /\ UNCHANGED <<now, staleUpdates>>

Mount ==
  /\ ~mounted
  /\ \E p \in NoisePatterns : MountAt(now, p, timers)
  /\ UNCHANGED <<now, staleUpdates>>

\* 'Refresh Analysis': window.location.reload() discards the page with its
\* timers and loads it again.
Reload ==
  /\ mounted
  /\ \E p \in NoisePatterns : MountAt(now, p, {})
  /\ UNCHANGED <<now, staleUpdates>>

----------------------------------------------------------------------------
(* The periodic updater *)

\* Switch onChange={setRealTimeEnabled}: the state update, the re-render and
\* the cleanup and re-run of the effect whose dependency changed (React 18
\* flushes the effects of a click within the click). The switch passes the
\* negation of its checked prop; it is rendered in the monitoring tab.
Toggle ==
  /\ mounted
  /\ activeTab = "monitoring"
  /\ LET checked == ~realTimeEnabled
         eff == EffectRun(EffectCleanup(timers, interval), checked, now)
     IN /\ realTimeEnabled' = checked
        /\ timers' = eff[1]
        /\ interval' = eff[2]
  /\ lastEventTime' = now
  /\ UNCHANGED <<mounted, pendingUpdates, activeTab, selectedVisualization, filters, snapshot,
                 currentBiasScore, realtimeData, now, tickCount, staleUpdates>>

\* A live timer is due: its callback runs, with its Math.random() calls
\* drawn from draws, and the timer is set again. The render follows at once
\* (rendered) or is left for later (~rendered).
TimerFireThen(draws, rendered) ==
  \E t \in timers :
    /\ t.due <= now
    /\ timers' = Reschedule(timers, t, now)
    /\ IF mounted /\ ~t.stale
         THEN \E d \in draws :
                LET queue == Append(pendingUpdates, Update(now, d))
                IN  /\ currentBiasScore' =
                         IF rendered THEN ApplyScores(currentBiasScore, queue)
                         ELSE currentBiasScore
                    /\ realtimeData' =
                         IF rendered THEN ApplyUpdates(realtimeData, queue)
                         ELSE realtimeData
                    /\ pendingUpdates' = IF rendered THEN <<>> ELSE queue
                    /\ tickCount' = tickCount + 1
                    /\ lastEventTime' = now
                    /\ UNCHANGED staleUpdates
         ELSE /\ staleUpdates' = TRUE
              /\ UNCHANGED <<currentBiasScore, realtimeData, pendingUpdates,
                             tickCount, lastEventTime>>
    /\ UNCHANGED <<mounted, activeTab, realTimeEnabled, selectedVisualization,
                   filters, snapshot, interval, now>>

TimerFireWith(draws) == TimerFireThen(draws, TRUE)

\* The render that follows one or more runs of the callback.
Render ==
  /\ mounted
  /\ pendingUpdates # <<>>
  /\ currentBiasScore' = ApplyScores(currentBiasScore, pendingUpdates)
  /\ realtimeData' = ApplyUpdates(realtimeData, pendingUpdates)
  /\ pendingUpdates' = <<>>
  /\ UNCHANGED <<mounted, activeTab, realTimeEnabled, selectedVisualization,
                 filters, snapshot, timers, interval, now, history>>

\* Mutation: the callback also raises an alert for the score it computed.
TimerFireRaisesAlert ==
  \E t \in timers :
    /\ t.due <= now
    /\ timers' = Reschedule(timers, t, now)
    /\ IF mounted /\ ~t.stale
         THEN \E d \in RandomDraws :
                /\ currentBiasScore' = NextScore(d[1])
                /\ realtimeData' = NextWindow(realtimeData, NewPoint(now, d))
                /\ alerts' = Append(alerts, [id |-> "4", timestamp |-> now,
                                             severity |-> "low",
                                             title |-> "Score Updated",
                                             metric |-> "overall_bias"])
                /\ tickCount' = tickCount + 1
                /\ lastEventTime' = now
                /\ UNCHANGED staleUpdates
         ELSE /\ staleUpdates' = TRUE
              /\ UNCHANGED <<currentBiasScore, realtimeData, alerts, tickCount,
                             lastEventTime>>
    /\ UNCHANGED <<pendingUpdates, mounted, activeTab, realTimeEnabled, selectedVisualization,
                   filters, biasMetrics, demographicData, interval, now>>
\* Mutation: the updater lives in the monitoring tab and its callback does
\* nothing while another tab is shown.
TimerFireOnMonitoringTab == activeTab = "monitoring" /\ TimerFireWith(RandomDraws)
TimerFire == TimerFireWith(RandomDraws)

\* Time passes, up to a number of clock steps; a due timer fires before the
\* clock moves on.
AdvanceClockUpTo(steps) ==
  /\ now < steps * Step
  /\ \A t \in timers : t.due > now
  /\ now' = now + Step
  /\ UNCHANGED <<mounted, pendingUpdates, viewState, snapshot, timers, interval, history>>

AdvanceClock == AdvanceClockUpTo(MaxClockSteps)

----------------------------------------------------------------------------
(* User events of the view *)

\* Mutation: the snapshot is not memoised, so the render that follows the
\* event invokes the generator again.
SetActiveTabRegenerates ==
  /\ mounted
  /\ \E key \in TabKeys \ {activeTab} : activeTab' = key
  /\ biasMetrics' = BiasMetricsLiteral
  /\ alerts' = AlertsLiteral(now)
  /\ demographicData' = DemographicLiteral
  /\ UNCHANGED <<mounted, pendingUpdates, realTimeEnabled, selectedVisualization, filters,
                 currentBiasScore, realtimeData, timers, interval,
                 now, history>>

SetActiveTab ==
  /\ mounted
  /\ \E key \in TabKeys \ {activeTab} : activeTab' = key
  /\ UNCHANGED <<mounted, pendingUpdates, realTimeEnabled, selectedVisualization, filters,
                 snapshot, currentBiasScore, realtimeData, timers, interval,
                 now, history>>

AttributeSelections == {<<"gender", "age">>, <<"gender", "age", "ethnicity">>}
OutcomeSelections == {"completion_rate", "grade_average"}
ThresholdSelections == {50000, 100000}
\* What the range picker reports: a date is <<t>>, a missing date (null) is
\* <<>>; no selection at all, one date only, an end missing, or both ends.
\* The dateRange of the filters holds two dates in the same form.
DateSelections ==
  {<<>>, << <<0>> >>, << <<>>, <<>> >>, << <<0 - 7 * Day>>, <<>> >>,
   << <<>>, <<0>> >>, << <<0 - 7 * Day>>, <<0>> >>}

SetProtectedAttributes ==
  /\ mounted
  /\ \E value \in AttributeSelections :
       filters' = [filters EXCEPT !.protectedAttributes = value]
  /\ filters' # filters
  /\ UNCHANGED <<mounted, pendingUpdates, activeTab, realTimeEnabled, selectedVisualization,
                 snapshot, currentBiasScore, realtimeData, timers, interval,
                 now, history>>

\* Mutation: the effect depends on the filters as well, so an edit runs its
\* cleanup and the effect again.
SetOutcomeVariableRerunsEffect ==
  /\ mounted
  /\ \E value \in OutcomeSelections :
       filters' = [filters EXCEPT !.outcomeVariable = value]
  /\ filters' # filters
  /\ LET effect == EffectRun(EffectCleanup(timers, interval), realTimeEnabled, now)
     IN  timers' = effect[1] /\ interval' = effect[2]
  /\ UNCHANGED <<mounted, pendingUpdates, activeTab, realTimeEnabled, selectedVisualization,
                 snapshot, currentBiasScore, realtimeData, now, history>>

SetOutcomeVariable ==
  /\ mounted
  /\ \E value \in OutcomeSelections :
       filters' = [filters EXCEPT !.outcomeVariable = value]
  /\ filters' # filters
  /\ UNCHANGED <<mounted, pendingUpdates, activeTab, realTimeEnabled, selectedVisualization,
                 snapshot, currentBiasScore, realtimeData, timers, interval,
                 now, history>>

\* Mutation: only the number of dates is tested.
DateRangeCompleteLengthOnly(dates) == Len(dates) = 2
\* The negation of the guard: !dates || dates.length !== 2 || !dates[0] || !dates[1]
DateRangeComplete(dates) ==
  ~(Len(dates) = 0 \/ Len(dates) # 2 \/ dates[1] = <<>> \/ dates[2] = <<>>)

\* RangePicker onChange: the filters after the picker reported dates.
DateRangeOnChange(f, dates) ==
  IF ~DateRangeComplete(dates) THEN f
  ELSE [f EXCEPT !.dateRange = <<dates[1], dates[2]>>]

SetDateRange ==
  /\ mounted
  /\ \E dates \in DateSelections : filters' = DateRangeOnChange(filters, dates)
  /\ filters' # filters
  /\ UNCHANGED <<mounted, pendingUpdates, activeTab, realTimeEnabled, selectedVisualization,
                 snapshot, currentBiasScore, realtimeData, timers, interval,
                 now, history>>

SetBiasThreshold ==
  /\ mounted
  /\ \E value \in ThresholdSelections :
       filters' = [filters EXCEPT !.biasThreshold = value]
  /\ filters' # filters
  /\ UNCHANGED <<mounted, pendingUpdates, activeTab, realTimeEnabled, selectedVisualization,
                 snapshot, currentBiasScore, realtimeData, timers, interval,
                 now, history>>

\* open={!!selectedVisualization}: the modal is shown for a chart, which is
\* an object, and hidden for null.
ModalOpen == selectedVisualization \in {"heatmap", "demographic"}

\* Mutation: opening the modal clears the interval of the updater.
OpenVisualizationStopsUpdater ==
  /\ mounted
  /\ activeTab = "overview"
  /\ \E chart \in {"heatmap", "demographic"} : selectedVisualization' = chart
  /\ selectedVisualization' # selectedVisualization
  /\ timers' = EffectCleanup(timers, interval)
  /\ interval' = NoTimer
  /\ UNCHANGED <<mounted, pendingUpdates, activeTab, realTimeEnabled, filters, snapshot,
                 currentBiasScore, realtimeData, now, history>>

\* 'Full View' on the heatmap or the demographic card of the overview tab.
OpenVisualization ==
  /\ mounted
  /\ activeTab = "overview"
  /\ \E chart \in {"heatmap", "demographic"} : selectedVisualization' = chart
  /\ selectedVisualization' # selectedVisualization
  /\ UNCHANGED <<mounted, pendingUpdates, activeTab, realTimeEnabled, filters, snapshot,
                 currentBiasScore, realtimeData, timers, interval, now, history>>

\* Modal onCancel
CloseVisualization ==
  /\ mounted
  /\ selectedVisualization # "null"
  /\ selectedVisualization' = "null"
  /\ UNCHANGED <<mounted, pendingUpdates, activeTab, realTimeEnabled, filters, snapshot,
                 currentBiasScore, realtimeData, timers, interval, now, history>>

\* Buttons without an onClick handler: 'Export Report' of the filter panel,
\* 'Export Dashboard' and 'Alerts' of the header, 'View' and 'Export' of the
\* history table (rendered in the history tab).
HandlerlessButtons ==
  {"Export Report", "Export Dashboard", "Alerts", "View", "Export"}

\* Mutation: the buttons are wired as 'Refresh Analysis' is.
ClickHandlerlessButtonReloads ==
  /\ mounted
  /\ \E button \in HandlerlessButtons :
       button \in {"View", "Export"} => activeTab = "history"
  /\ \E p \in NoisePatterns : MountAt(now, p, {})
  /\ UNCHANGED <<now, staleUpdates>>

ClickHandlerlessButton ==
  /\ mounted
  /\ \E button \in HandlerlessButtons :
       button \in {"View", "Export"} => activeTab = "history"
  /\ UNCHANGED vars

----------------------------------------------------------------------------
Next ==
  \/ TimerFire
  \/ AdvanceClock
  \/ Toggle
  \/ SetActiveTab
  \/ SetProtectedAttributes
  \/ SetOutcomeVariable
  \/ SetDateRange
  \/ SetBiasThreshold
  \/ OpenVisualization
  \/ CloseVisualization
  \/ ClickHandlerlessButton
  \/ Unmount
  \/ Mount
  \/ Reload

Spec == Init /\ [][Next]_vars

FairSpec == Spec /\ WF_vars(TimerFire) /\ WF_vars(AdvanceClock)

\* A long uninterrupted run of the updater: more ticks than the window has
\* points, each tick with the same draws.
LongRunDraws == {<<0, 999, 0, 500, 999>>}
LongRunTimerFire == TimerFireWith(LongRunDraws)
LongRunAdvanceClock == AdvanceClockUpTo(MaxLongRunSteps)
LongRunNext == LongRunTimerFire \/ LongRunAdvanceClock
LongRunSpec == Init /\ [][LongRunNext]_vars

\* Renders that lag behind the timer: a run of the callback only queues its
\* updates, and a later render applies what is queued.
BatchTimerFire == TimerFireThen(RandomDraws, FALSE)
BatchNext ==
  BatchTimerFire \/ Render \/ AdvanceClock \/ Toggle \/ SetActiveTab
BatchSpec == Init /\ [][BatchNext]_vars

----------------------------------------------------------------------------
(* Properties of the periodic updater and of the snapshot *)

Horizon == MaxClockSteps * Step
Newest == realtimeData[Len(realtimeData)]
\* The time at which the mounted instance was generated, read off the
\* oldest initial point still in the window.
MountTime == realtimeData[1].date + (29 - tickCount) * Day

\* C1: in every reachable state of a mounted dashboard the time-series
\* window holds exactly 30 points, whatever ticks, toggles, tab changes,
\* filter edits and modal events led to it; a tick removes the oldest point
\* and appends one.
C1_WindowHoldsThirtyPoints ==
  /\ [](mounted => Len(realtimeData) = 30)
  /\ [][tickCount' = tickCount + 1
          => /\ Len(realtimeData') = Len(realtimeData) - 1 + 1
             /\ \A i \in 1..(Len(realtimeData) - 1) :
                  realtimeData'[i] = realtimeData[i + 1]]_vars

C1_Witness ==
  /\ mounted /\ tickCount = 2 /\ ~realTimeEnabled
  /\ Len(realtimeData) = 30
  /\ filters.outcomeVariable = "grade_average"
  /\ selectedVisualization = "heatmap"

\* C2: while the view stays mounted and paused, no tick is applied: the
\* headline score and the window keep the values they had when pausing.
C2_PausedKeepsScoreAndWindow ==
  [][(mounted /\ ~realTimeEnabled /\ mounted' /\ ~realTimeEnabled')
       => UNCHANGED <<currentBiasScore, realtimeData, tickCount>>]_vars

\* Paused for longer than one period, after a tick had changed the score.
C2_Witness ==
  /\ mounted /\ ~realTimeEnabled /\ tickCount >= 1
  /\ now > lastEventTime + Period
  /\ currentBiasScore # InitialScore
  /\ Newest.date <= lastEventTime

\* C3: a tick is applied only while running and no earlier than one period
\* after the latest mount, toggle or tick: the periods that elapse while
\* paused produce no tick, during the pause or in a burst after the resume.
C3_NoReplayOfMissedTicks ==
  [][tickCount' = tickCount + 1
       => /\ mounted /\ realTimeEnabled
          /\ now >= lastEventTime + Period
          /\ Len(realtimeData') = Len(realtimeData)
          /\ realtimeData'[Len(realtimeData')].date = now]_vars

\* One tick only, although more than one period has passed since the mount:
\* the view was paused in between and the tick came a period after the resume.
C3_Witness ==
  /\ mounted /\ realTimeEnabled /\ tickCount = 1
  /\ lastEventTime = Newest.date
  /\ Newest.date >= MountTime + Period + Period

\* C4: under fairness of the timer and of the clock, whenever the view is
\* mounted and running with its next period inside the model's horizon, a
\* tick eventually appends a point stamped with the current time and
\* recomputes the score, unless the view is paused, unmounted or reloaded
\* first; this holds again after every tick and after every resume.
C4_RunningEventuallyTicks ==
  (mounted /\ realTimeEnabled /\ lastEventTime + Period <= Horizon)
    ~> \/ ~mounted
       \/ ~realTimeEnabled
       \/ (tickCount = 0 /\ lastEventTime = now)
       \/ /\ tickCount >= 1 /\ lastEventTime = now
          /\ Newest.date = now
          /\ currentBiasScore = Clamp(Newest.overall_bias)

\* A second tick, one period after the first.
C4_Witness ==
  /\ mounted /\ realTimeEnabled /\ tickCount = 2
  /\ lastEventTime = now /\ Newest.date = now
  /\ realtimeData[Len(realtimeData) - 1].date = now - Period

\* C5: once the dashboard is unmounted no timer of it is live, and no timer
\* callback ever runs against a released view.
C5_UnmountStopsUpdater == (~mounted => timers = {}) /\ ~staleUpdates

\* Unmounted for longer than one period.
C5_Witness == ~mounted /\ now > lastEventTime + Period /\ timers = {}

\* The threshold function of the specification.
ThresholdStatus(value) ==
  IF value < 50000 THEN "excellent"
  ELSE IF value < 100000 THEN "moderate" ELSE "high-risk"

\* C6: for every metric of the snapshot the stored status is the threshold
\* function of the value, and the badge and tag derived from the stored
\* status agree with what getBiasStatus displays for the value.
C6_StatusMatchesThreshold ==
  mounted =>
    \A i \in 1..Len(biasMetrics) :
      /\ biasMetrics[i].status = ThresholdStatus(biasMetrics[i].value)
      /\ StatusBadge(biasMetrics[i].status).text = getBiasStatus(biasMetrics[i].value).text
      /\ StatusBadge(biasMetrics[i].status).status = getBiasStatus(biasMetrics[i].value).status

\* The snapshot has a metric of each status.
C6_Witness ==
  /\ mounted /\ tickCount >= 1
  /\ \A st \in {"excellent", "moderate", "high-risk"} :
       \E i \in 1..Len(biasMetrics) :
         biasMetrics[i].status = st /\ ThresholdStatus(biasMetrics[i].value) = st

\* C7: in every state of a mounted dashboard the snapshot is the hardcoded
\* one: four metrics valued 0.087, 0.156, 0.043 and 0.112, three alerts,
\* gender counts 2847, 3156 and 97 with total 6100.
C7_SnapshotMatchesLiterals ==
  mounted =>
    /\ Len(biasMetrics) = 4
    /\ [i \in 1..4 |-> biasMetrics[i].value] = <<87000, 156000, 43000, 112000>>
    /\ Len(alerts) = 3
    /\ demographicData.gender = [male |-> 2847, female |-> 3156, nonbinary |-> 97]
    /\ demographicData.gender.male + demographicData.gender.female
         + demographicData.gender.nonbinary = 6100

\* The snapshot of a later mount, after ticks.
C7_Witness ==
  /\ mounted /\ tickCount >= 1 /\ MountTime > 0
  /\ activeTab = "history" /\ Len(alerts) = 3

\* C8: in every state of a mounted dashboard the headline score lies in
\* the closed interval [0, 0.3].
C8_ScoreClamped == mounted => (0 <= currentBiasScore /\ currentBiasScore <= 300000)

\* After a tick that drew the least jitter.
C8_Witness == mounted /\ tickCount >= 1 /\ currentBiasScore = 82000

\* The updater's two states.
Running ==
  /\ realTimeEnabled /\ interval # NoTimer
  /\ \E t \in timers : t.id = interval /\ ~t.stale
Paused == ~realTimeEnabled /\ interval = NoTimer /\ timers = {}

\* C9: the updater is Running on mount and always either Running or Paused
\* while mounted; a toggle moves it from one state to the other, and a tick,
\* a tab change, a filter edit or a modal event leaves it where it is.
\* (The first conjunct is about the initial state.)
C9_TwoStateMachine ==
  /\ (mounted = TRUE /\ realTimeEnabled = TRUE /\ interval # NoTimer /\ timers # {})
  /\ [](mounted => (Running \/ Paused))
  /\ [][/\ (Mount \/ Reload) => Running'
        /\ Toggle => ((Running /\ Paused') \/ (Paused /\ Running'))
        /\ (TimerFire \/ SetActiveTab \/ SetProtectedAttributes
              \/ SetOutcomeVariable \/ SetDateRange \/ SetBiasThreshold
              \/ OpenVisualization \/ CloseVisualization)
             => /\ realTimeEnabled' = realTimeEnabled
                /\ Running' = Running
                /\ Paused' = Paused]_vars

\* Paused, with tab, filter and modal events and a tick behind it.
C9_Witness ==
  /\ mounted /\ Paused /\ tickCount >= 1
  /\ activeTab = "mitigation"
  /\ filters.biasThreshold = 50000
  /\ selectedVisualization = "demographic"

\* C10: in every state a timer is registered exactly when the view is
\* mounted and the flag is set, and at most one timer is live.
C10_TimerDiscipline ==
  /\ Cardinality(timers) <= 1
  /\ (timers # {}) = (mounted /\ realTimeEnabled)

\* Running again after a pause that followed a tick, the resume being the
\* latest event.
C10_Witness ==
  /\ mounted /\ realTimeEnabled /\ tickCount >= 1
  /\ Cardinality(timers) = 1
  /\ lastEventTime = now /\ Newest.date < now

----------------------------------------------------------------------------
(* Filters *)

FilterEdit ==
  SetProtectedAttributes \/ SetOutcomeVariable \/ SetDateRange \/ SetBiasThreshold

\* The metrics with the table's Status column, the headline score with its
\* status, and the window: what the view shows of the analysis.
Shown ==
  <<biasMetrics, [i \in DOMAIN biasMetrics |-> StatusBadge(biasMetrics[i].status)],
    getBiasStatus(currentBiasScore), currentBiasScore, realtimeData>>

\* C11: a filter edit changes exactly one field of the filters record, the
\* one it edits, and nothing else: the metrics and their statuses, the
\* alerts, the demographic counts, the headline score, the window, the enable
\* flag and the timer (its id and the time it is due) are as before. No
\* other event of a mounted view writes the filters, so what is shown never
\* depends on them.
C11_FiltersAreCosmetic ==
  /\ [][FilterEdit =>
          /\ Cardinality({k \in DOMAIN filters : filters'[k] # filters[k]}) = 1
          /\ SetProtectedAttributes => filters'.protectedAttributes # filters.protectedAttributes
          /\ SetOutcomeVariable => filters'.outcomeVariable # filters.outcomeVariable
          /\ SetDateRange => filters'.dateRange # filters.dateRange
          /\ SetBiasThreshold => filters'.biasThreshold # filters.biasThreshold
          /\ filters'.minimumSampleSize = filters.minimumSampleSize
          /\ Shown' = Shown
          /\ UNCHANGED <<snapshot, currentBiasScore, realtimeData, activeTab,
                         realTimeEnabled, selectedVisualization, timers,
                         interval, tickCount>>]_vars
  /\ [][(mounted /\ mounted' /\ ~FilterEdit /\ ~Reload) => filters' = filters]_vars

\* Every filter edited, during a run of the updater that has ticked and
\* whose timer is still registered.
C11_Witness ==
  /\ mounted /\ realTimeEnabled /\ tickCount >= 1 /\ timers # {}
  /\ filters.protectedAttributes = <<"gender", "age", "ethnicity">>
  /\ filters.outcomeVariable = "grade_average"
  /\ filters.dateRange = << <<0 - 7 * Day>>, <<0>> >>
  /\ filters.biasThreshold = 50000

\* A selection as the claim describes it: no dates, a number of dates other
\* than two, or a start or an end that is missing.
IncompleteSelection(dates) ==
  \/ dates = <<>>
  \/ Len(dates) # 2
  \/ \E i \in DOMAIN dates : dates[i] = <<>>

\* C12: in every state of a mounted view, a date selection that is
\* incomplete leaves the filters record, its date range included, as it is,
\* and a selection with both ends replaces dateRange and nothing else; the
\* date range of the filters therefore always has both of its ends.
C12_IncompleteDateRangeIgnored ==
  mounted =>
    /\ Len(filters.dateRange) = 2
    /\ \A i \in 1..2 : Len(filters.dateRange[i]) = 1
    /\ \A dates \in DateSelections :
         LET after == DateRangeOnChange(filters, dates)
         IN  IF IncompleteSelection(dates)
               THEN after = filters
               ELSE /\ after.dateRange = dates
                    /\ after = [filters EXCEPT !.dateRange = dates]

\* A range was selected earlier and replaced the default; a selection with
\* its end missing that follows is ignored.
C12_Witness ==
  /\ mounted
  /\ filters.dateRange = << <<0 - 7 * Day>>, <<0>> >>
  /\ filters.dateRange # InitialFilters(now).dateRange
  /\ << <<0 - 7 * Day>>, <<>> >> \in DateSelections
  /\ DateRangeOnChange(filters, << <<0 - 7 * Day>>, <<>> >>) = filters

----------------------------------------------------------------------------
(* The generator *)

\* An alert list without its timestamps.
Untimed(list) == [i \in DOMAIN list |-> [list[i] EXCEPT !.timestamp = 0]]

\* C13, as stated: two invocations of the generator return identical
\* metrics, alerts and demographics. 'Refresh Analysis' invokes the generator
\* of a mounted view a second time, so the snapshot after it would be the
\* snapshot before it.
C13_TwoInvocationsIdentical ==
  [][Reload => snapshot' = snapshot]_vars

\* C13, amended: the metrics and the demographics are the same literals at
\* every invocation, and so are the alerts but for their timestamps, which
\* are the time of the invocation less 15, 45 and 120 minutes.
C13_FixedButForTimestamps ==
  /\ [](mounted =>
          /\ biasMetrics = BiasMetricsLiteral
          /\ demographicData = DemographicLiteral
          /\ Untimed(alerts) = Untimed(AlertsLiteral(0))
          /\ alerts[1].timestamp = MountTime - 15 * Minute
          /\ alerts[2].timestamp = MountTime - 45 * Minute
          /\ alerts[3].timestamp = MountTime - 120 * Minute)
  /\ [][Reload =>
          /\ biasMetrics' = biasMetrics
          /\ demographicData' = demographicData
          /\ Untimed(alerts') = Untimed(alerts)
          /\ \A i \in 1..3 :
               alerts'[i].timestamp - alerts[i].timestamp = MountTime' - MountTime]_vars

\* The snapshot of a later invocation: its alerts are dated from that
\* invocation, not from the first one.
C13_Witness ==
  /\ mounted /\ tickCount = 0
  /\ MountTime = now /\ now > 0
  /\ alerts[1].timestamp = now - 15 * Minute
  /\ alerts # AlertsLiteral(0)
  /\ Untimed(alerts) = Untimed(AlertsLiteral(0))

----------------------------------------------------------------------------
(* The window over a long run *)

\* The time of the k-th tick of a run that is never paused.
TickTime(k) == k * Period

\* C14: the window is a FIFO. A tick moves every point one position towards
\* the front and puts the point it creates, dated with the time of the tick,
\* at position 30. After k ticks the window is therefore the last 30 - k
\* points of the initial series followed by the k generated points in the
\* order of their generation when k < 30, and holds the 30 newest generated
\* points and no initial point when k >= 30.
C14_WindowIsFifo ==
  /\ [][tickCount' = tickCount + 1 =>
          /\ \A i \in 1..(WindowLen - 1) : realtimeData'[i] = realtimeData[i + 1]
          /\ \E d \in LongRunDraws : realtimeData'[WindowLen] = NewPoint(now, d)]_vars
  /\ [](\E p \in NoisePatterns :
          LET initial == TimeSeriesData(0, p)
              k == tickCount
          IN  /\ DOMAIN realtimeData = 1..WindowLen
              /\ \A i \in 1..WindowLen :
                   IF i + k <= WindowLen
                     THEN realtimeData[i] = initial[i + k]
                     ELSE \E d \in LongRunDraws :
                            realtimeData[i] = NewPoint(TickTime(i + k - WindowLen), d)
              /\ k >= WindowLen =>
                   \A i, j \in 1..WindowLen : realtimeData[i] # initial[j])

\* One tick more than the window has points: the oldest point left is the
\* one the second tick generated.
C14_Witness ==
  /\ tickCount = WindowLen + 1
  /\ realtimeData[1].date = TickTime(2)
  /\ realtimeData[WindowLen].date = TickTime(WindowLen + 1)

----------------------------------------------------------------------------
(* Frames of the events *)

\* C15: a tick writes the headline score and the window and nothing else:
\* the metrics, the alerts (three of them, the same and in the same order),
\* the demographic counts, the filters, the active tab, the modal slot and
\* the enable flag are after the tick what they were before it.
C15_TickFrame ==
  [][(TimerFire \/ tickCount' = tickCount + 1) =>
       /\ biasMetrics' = biasMetrics
       /\ alerts' = alerts
       /\ mounted => Len(alerts') = 3
       /\ demographicData' = demographicData
       /\ filters' = filters
       /\ activeTab' = activeTab
       /\ selectedVisualization' = selectedVisualization
       /\ realTimeEnabled' = realTimeEnabled]_vars

\* A tick has just happened, in a view whose tab, filters and modal slot
\* are no longer the initial ones.
C15_Witness ==
  /\ mounted /\ realTimeEnabled /\ tickCount >= 1
  /\ Newest.date = now /\ lastEventTime = now
  /\ Len(alerts) = 3
  /\ activeTab = "history"
  /\ selectedVisualization = "heatmap"
  /\ filters.outcomeVariable = "grade_average"

\* C16: the active tab is 'overview' when the view is mounted and is one of
\* overview, monitoring, mitigation, history in every state of a mounted
\* view; a tab selection sets it to one of these keys and changes nothing
\* else, and no other event of a mounted view but a reload changes it.
C16_ActiveTabIsOneOfFour ==
  /\ activeTab = "overview"
  /\ [](mounted =>
          activeTab \in {"overview", "monitoring", "mitigation", "history"})
  /\ [][(Mount \/ Reload) => activeTab' = "overview"]_vars
  /\ [][SetActiveTab =>
          /\ activeTab' \in {"overview", "monitoring", "mitigation", "history"}
          /\ UNCHANGED <<mounted, realTimeEnabled, selectedVisualization,
                         filters, snapshot, currentBiasScore, realtimeData,
                         timers, interval, tickCount>>]_vars
  /\ [][(mounted /\ mounted' /\ activeTab' # activeTab)
          => (SetActiveTab \/ Reload)]_vars

\* The last of the four tabs is selected, after a tick, a pause and a
\* filter edit.
C16_Witness ==
  /\ mounted /\ activeTab = "history"
  /\ tickCount >= 1 /\ ~realTimeEnabled
  /\ filters.biasThreshold = 50000

----------------------------------------------------------------------------
(* One snapshot per mount *)

\* The time at which the snapshot in use was generated, as its alerts
\* record it.
GenerationTime == alerts[1].timestamp + 15 * Minute

\* C17: while the view stays mounted no event but a reload replaces the
\* snapshot or resets the window: a step leaves the metrics, alerts and
\* demographic counts as they are and either leaves the window alone or, if
\* it is a tick, shifts it by one point. After k ticks the first 30 - k
\* points of the window are therefore still the last 30 - k points of the
\* series generated with the snapshot.
C17_GeneratedOncePerMount ==
  /\ [](mounted =>
          \E p \in NoisePatterns :
            LET initial == TimeSeriesData(GenerationTime, p)
            IN  \A i \in 1..(WindowLen - tickCount) :
                  realtimeData[i] = initial[i + tickCount])
  /\ [][(mounted /\ mounted' /\ ~Reload) =>
          /\ snapshot' = snapshot
          /\ GenerationTime' = GenerationTime
          /\ \/ realtimeData' = realtimeData /\ tickCount' = tickCount
             \/ /\ tickCount' = tickCount + 1
                /\ \A i \in 1..(WindowLen - 1) :
                     realtimeData'[i] = realtimeData[i + 1]]_vars

\* Two ticks, a pause, a tab change, a filter edit and an open modal after
\* the snapshot was generated: the window still starts with the third point
\* of the series of that snapshot.
C17_Witness ==
  /\ mounted /\ tickCount = 2 /\ ~realTimeEnabled
  /\ now > GenerationTime
  /\ activeTab = "mitigation"
  /\ filters.outcomeVariable = "grade_average"
  /\ selectedVisualization = "demographic"
  /\ realtimeData[1].date = SeriesDate(GenerationTime, 2)

----------------------------------------------------------------------------
(* Teardown *)

\* The state the claim calls initial, at the present time.
InitialView ==
  /\ mounted
  /\ activeTab = "overview"
  /\ Running /\ Cardinality(timers) = 1
  /\ \A t \in timers : t.due = now + Period
  /\ currentBiasScore = 92000
  /\ filters.protectedAttributes = <<"gender", "age">>
  /\ filters.outcomeVariable = "completion_rate"
  /\ filters.biasThreshold = 100000
  /\ filters.minimumSampleSize = 30
  /\ filters.dateRange = << <<now - 30 * Day>>, <<now>> >>
  /\ selectedVisualization = "null" /\ ~ModalOpen
  /\ Len(realtimeData) = 30
  /\ \E p \in NoisePatterns : realtimeData = TimeSeriesData(now, p)
  /\ tickCount = 0

\* C18: a mount that follows an unmount, and a reload, leave the view in its
\* initial state whatever state they start from: tab overview, updater
\* Running with its first tick one period away, score 0.092, default
\* filters, modal closed, a window of 30 points generated at that moment.
C18_NothingPersists ==
  /\ [][(Mount \/ Reload) => InitialView']_vars
  /\ [][(~mounted /\ mounted') => InitialView']_vars

\* The initial state again, later than the first mount.
C18_Witness ==
  /\ InitialView
  /\ now > 0 /\ lastEventTime = now
  /\ alerts[1].timestamp = now - 15 * Minute

----------------------------------------------------------------------------
(* Buttons and the modal *)

\* C19: a click on 'Export Report', 'Export Dashboard', 'Alerts' or on
\* 'View' or 'Export' of the history table leaves the tab, the filters, the
\* enable flag, the modal slot, the score, the window and the snapshot as
\* they are, and the timer of the updater registered as it was.
C19_ExportButtonsAreNoOps ==
  [][ClickHandlerlessButton =>
       /\ UNCHANGED <<activeTab, filters, realTimeEnabled, selectedVisualization,
                      currentBiasScore, realtimeData>>
       /\ UNCHANGED <<mounted, snapshot, timers, interval, tickCount>>
       /\ Running' = Running /\ Paused' = Paused]_vars

\* The history tab, where every one of the buttons can be clicked: the
\* updater is running and has ticked, a filter is edited, the modal is open.
C19_Witness ==
  /\ mounted /\ activeTab = "history"
  /\ Running /\ tickCount >= 1
  /\ filters.outcomeVariable = "grade_average"
  /\ ModalOpen

\* C20: the modal is open exactly when the slot is not null. The slot is
\* null on mount; 'Full View' sets it to the heatmap or to the demographic
\* chart and cancel sets it to null, neither changing anything else, the
\* timer of the updater included; no other event of a mounted view but a
\* reload writes the slot. While the modal is open and the flag is set the
\* timer stays registered and due within one period.
C20_ModalFollowsSlot ==
  /\ selectedVisualization = "null"
  /\ [](mounted =>
          /\ selectedVisualization \in {"null", "heatmap", "demographic"}
          /\ ModalOpen = (selectedVisualization # "null")
          /\ (ModalOpen /\ realTimeEnabled) =>
               /\ Running
               /\ \A t \in timers : t.due <= now + Period)
  /\ [][(Mount \/ Reload) => selectedVisualization' = "null" /\ ~ModalOpen']_vars
  /\ [][OpenVisualization =>
          /\ selectedVisualization' \in {"heatmap", "demographic"}
          /\ ModalOpen'
          /\ UNCHANGED <<mounted, activeTab, realTimeEnabled, filters, snapshot,
                         currentBiasScore, realtimeData, timers, interval,
                         tickCount>>]_vars
  /\ [][CloseVisualization =>
          /\ ModalOpen /\ ~ModalOpen'
          /\ selectedVisualization' = "null"
          /\ UNCHANGED <<mounted, activeTab, realTimeEnabled, filters, snapshot,
                         currentBiasScore, realtimeData, timers, interval,
                         tickCount>>]_vars
  /\ [][(mounted /\ mounted' /\ selectedVisualization' # selectedVisualization)
          => (OpenVisualization \/ CloseVisualization \/ Reload)]_vars

\* The modal shows the heatmap and the updater has just ticked for the
\* second time.
C20_Witness ==
  /\ mounted /\ ModalOpen /\ selectedVisualization = "heatmap"
  /\ realTimeEnabled /\ tickCount = 2
  /\ Newest.date = now /\ lastEventTime = now
  /\ \A t \in timers : t.due = now + Period

----------------------------------------------------------------------------
(* The channels of the initial series *)

Channels ==
  <<"overall_bias", "gender_bias", "age_bias", "ethnic_bias", "socioeconomic_bias">>
ChannelBase == <<80000, 87000, 156000, 43000, 112000>>
ChannelNoise == <<10000, 8000, 10000, 5000, 8000>>

\* The frequencies (in steps of 0.05, 0 for no sinusoidal term) and the
\* amplitudes (in steps of 0.005, of either sign) a sinusoidal term is
\* looked for among.
Frequencies == 0..4
Amplitudes == {a * 5000 : a \in (0 - 12)..12}

\* The points of the window that are left of the initial series, with their
\* index in the series.
InitialPositions == 1..(WindowLen - tickCount)
SeriesIndex(j) == j + tickCount - 1

\* C21, as stated: for every channel there are a frequency and an amplitude
\* such that the value at every index i is the base of the channel plus
\* sin(i * frequency) * amplitude plus the noise drawn for it.
C21_EveryChannelSinusoidal ==
  mounted =>
    \E p \in NoisePatterns :
      \A c \in DOMAIN Channels :
        \E k \in Frequencies, a \in Amplitudes :
          \A j \in InitialPositions :
            realtimeData[j][Channels[c]] =
              ChannelBase[c] + SinTerm(SeriesIndex(j) * k, a)
                + NoiseTerm(Noise(p, SeriesIndex(j), c - 1), ChannelNoise[c])

\* C21, amended: the overall, gender and socioeconomic channels are a base
\* plus sin(i * frequency) * amplitude plus noise, with frequencies 0.2, 0.15
\* and 0.1; the ethnic channel is its base plus noise, and the age channel
\* is its base less 0.002 * i plus noise. The noise of a channel is not less
\* than zero and less than the range of the channel.
C21_ChannelFormulas ==
  mounted =>
    \A j \in InitialPositions :
      LET i == SeriesIndex(j)
          point == realtimeData[j]
      IN  /\ point.overall_bias - (80000 + SinTerm(i * 4, 20000)) \in 0..9999
          /\ point.gender_bias - (87000 + SinTerm(i * 3, 15000)) \in 0..7999
          /\ point.socioeconomic_bias - (112000 + SinTerm(i * 2, 20000)) \in 0..7999
          /\ point.ethnic_bias - 43000 \in 0..4999
          /\ point.age_bias - (156000 - 2000 * i) \in 0..9999

\* A whole initial series: the age channel has dropped by more than 0.05
\* from its first point to its last, and the overall channel has risen and
\* fallen again.
C21_Witness ==
  /\ mounted /\ tickCount = 0
  /\ realtimeData[WindowLen].age_bias < realtimeData[1].age_bias - 50000
  /\ realtimeData[9].overall_bias > realtimeData[1].overall_bias + 10000
  /\ realtimeData[24].overall_bias < realtimeData[9].overall_bias - 30000

----------------------------------------------------------------------------
(* The headline score *)

\* Every value Math.random() can return, in thousandths.
AllDraws == 0..(RandomUnit - 1)

\* C22: once a tick has happened, the overall channel of the newest point of
\* the window, which is the score the tick computed before clamping, equals
\* the headline score, which is that score clamped.
C22_NewestPointIsScore ==
  (mounted /\ tickCount >= 1) => Newest.overall_bias = currentBiasScore

\* A tick drew the least jitter and the updater was paused after it.
C22_Witness ==
  /\ mounted /\ tickCount >= 1 /\ ~realTimeEnabled
  /\ Newest.overall_bias = 82000
  /\ currentBiasScore = 82000

\* C23: in every state of a mounted view the headline score lies in
\* [0.082, 0.102] and is 0.092 until the first tick; its status is Moderate
\* or High Risk, never Excellent; and for every draw the updater of a
\* view can make (looked at when the view has just been mounted) the clamp
\* returns the score it is given.
C23_ScoreNearBase ==
  mounted =>
    /\ 82000 <= currentBiasScore /\ currentBiasScore <= 102000
    /\ tickCount = 0 => currentBiasScore = 92000
    /\ getBiasStatus(currentBiasScore).text \in {"Moderate", "High Risk"}
    /\ getBiasStatus(currentBiasScore).status \in {"warning", "error"}
    /\ InitialView =>
         \A r \in AllDraws :
           /\ Clamp(NewScore(r)) = NewScore(r)
           /\ 82000 <= NewScore(r) /\ NewScore(r) <= 102000

\* A tick drew the greatest jitter: the score is above 0.1 and High Risk.
C23_Witness ==
  /\ mounted /\ tickCount >= 1
  /\ currentBiasScore > 100000
  /\ getBiasStatus(currentBiasScore).text = "High Risk"

----------------------------------------------------------------------------
(* Runs of the callback and renders *)

\* The points of a window that a run of the callback generated: they are
\* dated later than the snapshot.
GeneratedIn(window) ==
  {j \in DOMAIN window : window[j].date > GenerationTime}

\* The window once everything that is queued has been rendered.
LatestWindow == ApplyUpdates(realtimeData, pendingUpdates)

\* C24: no run of the callback is lost or merged with another. Each run
\* queues one update; whatever renders, toggles and tab changes come between
\* the runs, the points rendered and the updates queued add up to the number
\* of runs since the mount, and the window with the queue applied is the
\* initial series shifted by that number, followed by one generated point
\* for each run in the order of the runs. A render of n queued updates
\* shifts the window by n positions and appends their n points in order.
C24_NoTickLostOrMerged ==
  /\ [](mounted =>
          /\ Cardinality(GeneratedIn(realtimeData)) + Len(pendingUpdates) = tickCount
          /\ Len(LatestWindow) = WindowLen
          /\ Cardinality(GeneratedIn(LatestWindow)) = tickCount
          /\ \E p \in NoisePatterns :
               \A j \in 1..(WindowLen - tickCount) :
                 LatestWindow[j] = TimeSeriesData(GenerationTime, p)[j + tickCount]
          /\ \A j \in (WindowLen - tickCount + 1)..WindowLen :
               /\ j \in GeneratedIn(LatestWindow)
               /\ j < WindowLen => LatestWindow[j].date < LatestWindow[j + 1].date)
  /\ [][tickCount' = tickCount + 1 =>
          /\ realtimeData' = realtimeData
          /\ Len(pendingUpdates') = Len(pendingUpdates) + 1
          /\ \A m \in DOMAIN pendingUpdates : pendingUpdates'[m] = pendingUpdates[m]
          /\ pendingUpdates'[Len(pendingUpdates')].point.date = now]_vars
  /\ [][Render =>
          LET n == Len(pendingUpdates)
          IN  /\ n >= 1 /\ pendingUpdates' = <<>>
              /\ \A i \in 1..(WindowLen - n) : realtimeData'[i] = realtimeData[i + n]
              /\ \A m \in 1..n :
                   realtimeData'[WindowLen - n + m] = pendingUpdates[m].point
              /\ currentBiasScore' = pendingUpdates[n].score
              /\ tickCount' = tickCount]_vars

\* Two runs of the callback are queued and no render has come yet; a pause
\* and a tab change came after them. The render to come shows both points.
C24_Witness ==
  /\ mounted /\ tickCount = 2 /\ Len(pendingUpdates) = 2
  /\ GeneratedIn(realtimeData) = {}
  /\ Cardinality(GeneratedIn(LatestWindow)) = 2
  /\ LatestWindow[WindowLen - 1] = pendingUpdates[1].point
  /\ LatestWindow[WindowLen] = pendingUpdates[2].point
  /\ ~realTimeEnabled /\ activeTab = "history"

----------------------------------------------------------------------------
(* The updater and the tabs *)

\* C25: the updater does not depend on the active tab. Whichever tab is
\* shown, a view whose flag is set has its timer registered and due within
\* one period, and the callback runs when the timer is due; a tab change
\* leaves the enable flag, the timer, the headline score and the window as
\* they are.
C25_UpdaterIgnoresTab ==
  /\ [](\A key \in {"overview", "monitoring", "mitigation", "history"} :
          (mounted /\ activeTab = key /\ realTimeEnabled) =>
            /\ Running
            /\ \A t \in timers : t.due <= now + Period
            /\ (\E t \in timers : t.due <= now) => ENABLED TimerFire)
  /\ [][SetActiveTab =>
          /\ activeTab' # activeTab
          /\ UNCHANGED <<realTimeEnabled, timers, interval, currentBiasScore,
                         realtimeData, tickCount>>
          /\ Running' = Running /\ Paused' = Paused]_vars
  /\ [][(TimerFire /\ mounted) => tickCount' = tickCount + 1]_vars

\* The updater has just ticked for the second time while the mitigation tab
\* is shown.
C25_Witness ==
  /\ mounted /\ Running /\ activeTab = "mitigation"
  /\ tickCount = 2 /\ Newest.date = now /\ lastEventTime = now

----------------------------------------------------------------------------
(* The population *)

\* The sum of the counts of a breakdown.
RECURSIVE SumOf(_, _)
SumOf(counts, groups) ==
  IF groups = {} THEN 0
  ELSE LET g == CHOOSE x \in groups : TRUE
       IN  counts[g] + SumOf(counts, groups \ {g})
Total(counts) == SumOf(counts, DOMAIN counts)

\* C26: in every state of a mounted view the gender counts, the age-band
\* counts and the ethnicity counts each add up to 6100, the figure the
\* monitoring tab shows as 'Data Points Analyzed'.
C26_OnePopulation ==
  mounted =>
    /\ Total(demographicData.gender) = 6100
    /\ Total(demographicData.age) = 6100
    /\ Total(demographicData.ethnicity) = 6100
    /\ DataPointsAnalyzed = 6100
    /\ Cardinality(DOMAIN demographicData.gender) = 3
    /\ Cardinality(DOMAIN demographicData.age) = 4
    /\ Cardinality(DOMAIN demographicData.ethnicity) = 5

\* The monitoring tab is shown, after a reload and a tick.
C26_Witness ==
  /\ mounted /\ activeTab = "monitoring"
  /\ GenerationTime > 0 /\ tickCount >= 1
  /\ Total(demographicData.age) = DataPointsAnalyzed

----------------------------------------------------------------------------
(* The dates of the window *)

\* C27: in every state of a mounted view the dates of the window do not
\* decrease from the oldest point to the newest, and none is later than the
\* clock: the initial points are dated a day apart up to the time of the
\* mount, and a tick dates its point with the time of the tick.
C27_DatesInOrder ==
  mounted =>
    /\ \A j \in 1..(Len(realtimeData) - 1) :
         realtimeData[j].date <= realtimeData[j + 1].date
    /\ \A j \in InitialPositions :
         realtimeData[j].date = GenerationTime - (WindowLen - j - tickCount) * Day
    /\ realtimeData[1].date >= GenerationTime - 29 * Day
    /\ \A j \in DOMAIN realtimeData :
         /\ realtimeData[j].date <= now
         /\ j \notin InitialPositions => realtimeData[j].date >= GenerationTime

\* A view mounted anew at a later time has ticked twice: the last initial
\* point is dated with the mount, the two points after it with the ticks.
C27_Witness ==
  /\ mounted /\ tickCount = 2 /\ GenerationTime > 0
  /\ realtimeData[WindowLen - 2].date = GenerationTime
  /\ realtimeData[WindowLen - 2].date < realtimeData[WindowLen - 1].date
  /\ realtimeData[WindowLen - 1].date < realtimeData[WindowLen].date
  /\ realtimeData[WindowLen].date <= now

====
